---- MODULE Spec2Model ----
(***************************************************************************)
(* Model of src/src/screencast.rs: the ScreenCast client of the desktop    *)
(* portal.  One ScreenCast object drives the four-step handshake           *)
(* (CreateSession, SelectSources, Start, OpenPipeWireRemote) against the   *)
(* broker.  The client is modelled at the granularity of its await points; *)
(* the broker and the bus connection are the environment.                  *)
(***************************************************************************)
EXTENDS Integers, Sequences, FiniteSets

\* ------------------------------------------------------------------ bounds
\* Number of calls of screencast() on the one object.
MaxRuns == 2
\* Longest "streams" array the broker puts into the Start response.
MaxStreams == 2

\* ------------------------------------------------------------------ values
\* zvariant::Value, the variants the code matches on.
U32(n) == [t |-> "U32", v |-> n]
I32(n) == [t |-> "I32", v |-> n]
Str(s) == [t |-> "Str", v |-> s]
Structure(fs) == [t |-> "Structure", v |-> fs]
Dict(d) == [t |-> "Dict", v |-> d]
Array(a) == [t |-> "Array", v |-> a]

\* Option<T>
None == [some |-> FALSE, v |-> 0]
Some(x) == [some |-> TRUE, v |-> x]

\* A dictionary without entries (HashMap::new()).
EmptyDict == [k \in {} |-> 0]

\* HashMap::remove(key) as used on the result dictionary: the entry or None.
Remove(d, key) == IF key \in DOMAIN d THEN Some(d[key]) ELSE None

\* Result<T, E>
Ok(x) == [ok |-> TRUE, v |-> x]
Err(e) == [ok |-> FALSE, v |-> e]

\* zbus::Error values the code produces or lets through.  Failure carries the
\* message "<prefix>: <text>"; the others are the library's own errors.
Failure(prefix, text) == [kind |-> "Failure", prefix |-> prefix, text |-> text]
VariantError(text) == [kind |-> "Variant", prefix |-> "", text |-> text]
TransportError == [kind |-> "MethodError", prefix |-> "", text |-> "call failed"]
NoError == [kind |-> "", prefix |-> "", text |-> ""]

\* usize::to_string: the decimal digits of n, most significant first.
Digit(d) == <<"0", "1", "2", "3", "4", "5", "6", "7", "8", "9">>[d + 1]
RECURSIVE to_string(_)
to_string(n) == IF n < 10 THEN <<Digit(n)>> ELSE to_string(n \div 10) \o <<Digit(n % 10)>>

\* Strings that are taken apart are sequences of one-character strings.
PathChars == {"a", "b"}
\* OwnedObjectPath::try_from(String): "/" alone, or "/"-separated non-empty
\* elements, no trailing "/".
ValidObjectPath(s) ==
    /\ Len(s) >= 1
    /\ s[1] = "/"
    /\ \A i \in 1..Len(s) : s[i] = "/" \/ s[i] \in PathChars
    /\ Len(s) > 1 => s[Len(s)] # "/"
    /\ \A i \in 1..(Len(s) - 1) : ~(s[i] = "/" /\ s[i + 1] = "/")

\* OwnedObjectPath::default()
DefaultPath == <<"/">>

\* --------------------------------------------------------------- decoder
\* SelectedSource::new
SelectedSource_new(id, type_) ==
    [id |-> id, width |-> None, height |-> None, type_ |-> type_]

\* Dict::get::<_, u32>(key): Err when the entry is not a u32, else the entry
\* or None.
DictGetU32(d, key) ==
    IF key \notin DOMAIN d THEN Ok(None)
    ELSE IF d[key].t = "U32" THEN Ok(Some(d[key].v))
    ELSE Err(VariantError("IncorrectType"))

\* The "size" branch of try_from: width and height are set when the entry is a
\* structure whose first two fields are both I32.
WithSize(result, d) ==
    IF /\ "size" \in DOMAIN d
       /\ d["size"].t = "Structure"
       /\ Len(d["size"].v) >= 2
       /\ d["size"].v[1].t = "I32"
       /\ d["size"].v[2].t = "I32"
    THEN [result EXCEPT !.width = Some(d["size"].v[1].v),
                        !.height = Some(d["size"].v[2].v)]
    ELSE result

\* try_from that takes a missing source_type for 0 and any value for a source.
SelectedSource_try_from_lenient(value) ==
    IF value.t = "Structure" /\ Len(value.v) >= 1 /\ value.v[1].t = "U32"
    THEN IF Len(value.v) >= 2 /\ value.v[2].t = "Dict"
              /\ DictGetU32(value.v[2].v, "source_type").ok
              /\ DictGetU32(value.v[2].v, "source_type").v.some
         THEN Ok(WithSize(SelectedSource_new(value.v[1].v,
                     DictGetU32(value.v[2].v, "source_type").v.v), value.v[2].v))
         ELSE Ok(SelectedSource_new(value.v[1].v, 0))
    ELSE Err(VariantError("IncorrectType"))

\* impl TryFrom<Value> for SelectedSource
SelectedSource_try_from(value) ==
    IF /\ value.t = "Structure"
       /\ Len(value.v) = 2
       /\ value.v[1].t = "U32"
       /\ value.v[2].t = "Dict"
    THEN LET id == value.v[1].v
             source == value.v[2].v
             source_type == DictGetU32(source, "source_type")
         IN  IF ~source_type.ok THEN Err(source_type.v)
             ELSE IF ~source_type.v.some
                  THEN Err(VariantError("fail to get source_type"))
                  ELSE Ok(WithSize(SelectedSource_new(id, source_type.v.v), source))
    ELSE Err(VariantError("IncorrectType"))

\* Vec::<SelectedSource>::try_from(Value): an array whose every element
\* converts, in order; the first failing element fails the whole vector.
\* The vector built back to front.
RECURSIVE VecFromSeq_reversed(_)
VecFromSeq_reversed(a) ==
    IF a = <<>> THEN Ok(<<>>)
    ELSE LET head == SelectedSource_try_from(a[1])
         IN  IF ~head.ok THEN head
             ELSE LET rest == VecFromSeq_reversed(Tail(a))
                  IN  IF ~rest.ok THEN rest ELSE Ok(rest.v \o <<head.v>>)

RECURSIVE VecFromSeq(_)
VecFromSeq(a) ==
    IF a = <<>> THEN Ok(<<>>)
    ELSE LET head == SelectedSource_try_from(a[1])
         IN  IF ~head.ok THEN head
             ELSE LET rest == VecFromSeq(Tail(a))
                  IN  IF ~rest.ok THEN rest ELSE Ok(<<head.v>> \o rest.v)

Vec_try_from(value) ==
    IF value.t = "Array" THEN VecFromSeq(value.v)
    ELSE Err(VariantError("IncorrectType"))

\* String::try_from(Value)
String_try_from(value) ==
    IF value.t = "Str" THEN Ok(value.v) ELSE Err(VariantError("IncorrectType"))

\* OwnedObjectPath::try_from(String)
OwnedObjectPath_try_from(s) ==
    IF ValidObjectPath(s) THEN Ok(s) ELSE Err(VariantError("invalid object path"))

\* ------------------------------------------------------- the environment
\* What the broker may answer.  Status codes: 0 success, 1 cancelled.
ResponseCodes == {0, 1}

\* Values the broker may put under "session_handle".
SessionEntries ==
    { Str(<<"/", "a">>), Str(<<"/", "b">>), Str(<<"a">>), U32(1) }

\* Elements the broker may put into the "streams" array.
StreamElements ==
    { Structure(<<U32(7), Dict([source_type |-> U32(2),
                               size |-> Structure(<<I32(1920), I32(1080)>>)])>>),
      Structure(<<U32(3), Dict([source_type |-> U32(1),
                               size |-> Structure(<<Str(<<"b">>), Str(<<"b">>)>>)])>>),
      Structure(<<U32(1), Dict(EmptyDict)>>) }

SeqsUpTo(S, n) == UNION { [1..k -> S] : k \in 0..n }

\* Values the broker may put under "streams".
StreamsEntries ==
    { Array(a) : a \in SeqsUpTo(StreamElements, MaxStreams) } \cup { U32(0) }

\* Result dictionaries of the Response signal, per request.
ResultsOf(call) ==
    CASE call = "CreateSession" ->
            {EmptyDict} \cup { [session_handle |-> x] : x \in SessionEntries }
      [] call = "Start" ->
            {EmptyDict} \cup { [streams |-> x] : x \in StreamsEntries }
      [] OTHER -> {EmptyDict}

\* The Response signal of a request: its body decodes (args() succeeds) to a
\* status code and a result dictionary, or does not decode.
Signal(code, results) == [body_ok |-> TRUE, response |-> code, results |-> results]
BadSignal == [body_ok |-> FALSE, response |-> 0, results |-> EmptyDict]
SignalsOf(call) ==
    { Signal(c, r) : c \in ResponseCodes, r \in ResultsOf(call) } \cup {BadSignal}

\* File descriptors OpenPipeWireRemote may return.
Fds == {3}

\* The calls that return a request handle.
Requests == {"CreateSession", "SelectSources", "Start"}

\* ------------------------------------------------------------- step logic
\* The increment forgotten: the counter keeps its value.
increment_forgotten(c) == c

\* self.counter += 1
increment(c) == c + 1

\* create_session: the match on response.response.
create_session_handle(response) ==
    IF response.response = 0
    THEN Remove(response.results, "session_handle")
    ELSE None

\* A missing session_handle taken for the default path instead of an error.
create_session_parse_lenient(session_handle) ==
    IF ~session_handle.some
    THEN Ok(DefaultPath)
    ELSE LET str == String_try_from(session_handle.v)
         IN  IF ~str.ok THEN str ELSE OwnedObjectPath_try_from(str.v)

\* create_session: ok_or(Failure) then String, then OwnedObjectPath.
create_session_parse(session_handle) ==
    IF ~session_handle.some
    THEN Err(Failure("create session", "fail to get session_handle"))
    ELSE LET str == String_try_from(session_handle.v)
         IN  IF ~str.ok THEN str ELSE OwnedObjectPath_try_from(str.v)

\* The status code not looked at.
start_select_sources_any_status(response) ==
    Remove(response.results, "streams")

\* start_select: the match on response.response.
start_select_sources(response) ==
    IF response.response = 0
    THEN Remove(response.results, "streams")
    ELSE None

\* start_select: ok_or(Failure) then Vec<SelectedSource>.
start_select_parse(sources) ==
    IF ~sources.some
    THEN Err(Failure("start select", "fail to get streams"))
    ELSE Vec_try_from(sources.v)

\* ------------------------------------------------------------------ state
VARIABLES
    pc,                \* where screencast() stands; "idle" when no call runs
    run,               \* number of screencast() calls started on the object
    counter,           \* self.counter
    session,           \* self.session
    selected_sources,  \* self.selected_sources
    connection,        \* self.connection: "None", or Some: "Open"/"Dropped"
    request,           \* broker: per request of this run, none/accepted/emitted
    subscribed,        \* the request whose Response stream the step holds
    responses,         \* the signals queued in that stream
    lost,              \* requests whose signal was emitted with no stream open
    issued,            \* history: the calls of this run sent to the broker, in order
    sent_before,       \* history: the request tokens sent in the runs before
    done,              \* history: steps of this run that returned Ok
    failed,            \* history: the step and cause that ended this run
    received,          \* history: the signal each waiting step of this run took
    start_response,    \* history: the signal the last successful Start consumed
    result,            \* what the last screencast() returned
    shutdown_result,   \* what shutdown() returned: "none" before it, "ok", "err"
    value,             \* decoder run: the Value handed to try_from
    decoded,           \* decoder run: what try_from returned
    p_pc,              \* two objects: where each one's screencast() stands
    p_counter,         \* two objects: each one's self.counter
    p_path,            \* two objects: request_path of each one's current step
    p_stream,          \* two objects: each one's Response stream
    p_requests,        \* two objects: request paths the broker has yet to answer
    p_handles,         \* two objects, history: the paths handed to each one
    p_taken            \* two objects, history: the signals each one took

\* The variables of the decoder run.
decoder_vars == <<value, decoded>>

\* The variables of the run of two objects side by side.
pair_vars == <<p_pc, p_counter, p_path, p_stream, p_requests, p_handles, p_taken>>

\* The variables the handshake does not touch.
other_vars == <<shutdown_result, decoder_vars, pair_vars>>

\* The variables a step inside screencast() does not touch.
step_kept_vars == <<sent_before, other_vars>>

vars == <<pc, run, counter, session, selected_sources, connection, request,
          subscribed, responses, lost, issued, sent_before, done, failed,
          received, start_response, result, other_vars>>

NoResult == [tag |-> "none", fd |-> 0, err |-> NoError]
Returned(fd) == [tag |-> "ok", fd |-> fd, err |-> NoError]
Raised(e) == [tag |-> "err", fd |-> 0, err |-> e]

\* The steps that wait for the Response signal of their request.
Awaited == {"CreateSession", "Start"}
NoSignal == [body_ok |-> FALSE, response |-> 0 - 1, results |-> EmptyDict]
NoFailure == [step |-> "", cause |-> ""]
NoToken == <<>>
NoPath == <<>>

\* The request tokens a sequence of calls carried.
TokensOf(calls) ==
    { calls[i].token : i \in 1..Len(calls) } \ {NoToken}

\* One entry of the history of calls.
Call(name, token, session_token, path) ==
    [run |-> run, call |-> name, token |-> token,
     session_token |-> session_token, session |-> path]

\* Markers of the decoder run: no input, no output yet.
NoValue == [t |-> "", v |-> 0]
NotDecoded == [ok |-> FALSE, v |-> NoError]
DecoderIdle == value = NoValue /\ decoded = NotDecoded

\* ScreenCast::default(), with nothing sent yet.
ScreenCast_default ==
    /\ pc = "idle"
    /\ run = 0
    /\ counter = 0
    /\ session = DefaultPath
    /\ selected_sources = <<>>
    /\ connection = "None"
    /\ request = [r \in Requests |-> "none"]
    /\ subscribed = "none"
    /\ responses = <<>>
    /\ lost = {}
    /\ issued = <<>>
    /\ sent_before = {}
    /\ done = {}
    /\ failed = NoFailure
    /\ received = [r \in Awaited |-> NoSignal]
    /\ start_response = NoSignal
    /\ result = NoResult
    /\ shutdown_result = "none"

\* The two objects of the side-by-side run, each with the bus name of the
\* connection its screencast() opens.
Sessions == {1, 2}
NoStream == [path |-> NoPath, queue |-> <<>>]

\* Two objects from ScreenCast::default(), nothing called yet.
PairIdle ==
    /\ p_pc = [s \in Sessions |-> "idle"]
    /\ p_counter = [s \in Sessions |-> 0]
    /\ p_path = [s \in Sessions |-> NoPath]
    /\ p_stream = [s \in Sessions |-> NoStream]
    /\ p_requests = {}
    /\ p_handles = [s \in Sessions |-> {}]
    /\ p_taken = {}

Init ==
    /\ ScreenCast_default
    /\ DecoderIdle
    /\ PairIdle

\* Fail with the `?` left out: the error is dropped and the handshake goes on
\* with the step after `step`.
Fail_continue(step, cause, e) ==
    /\ pc' = CASE step = "CreateSession" -> "prepare_select"
               [] step = "SelectSources" -> "start_select"
               [] step = "Start" -> "open_remote"
               [] OTHER -> "idle"
    /\ result' = result
    /\ failed' = failed
    /\ subscribed' = "none"
    /\ responses' = <<>>

\* The `?` operator: screencast() returns Err(e) from inside `step`.
Fail(step, cause, e) ==
    /\ pc' = "idle"
    /\ result' = Raised(e)
    /\ failed' = [step |-> step, cause |-> cause]
    /\ subscribed' = "none"
    /\ responses' = <<>>

\* Why a consumed response made its step fail (history only).
CauseOf(response, key, parsed) ==
    IF response.response # 0 THEN "status"
    ELSE IF key \notin DOMAIN response.results THEN "missing"
    ELSE "decode"

\* ---------------------------------------------------------------- client
\* screencast() that clears the sources of the previous run before it starts.
screencast_resetting ==
    /\ pc = "idle"
    /\ run < MaxRuns
    /\ run' = run + 1
    /\ request' = [r \in Requests |-> "none"]
    /\ subscribed' = "none"
    /\ responses' = <<>>
    /\ lost' = {}
    /\ done' = {}
    /\ received' = [r \in Awaited |-> NoSignal]
    /\ selected_sources' = <<>>
    /\ \/ /\ connection' = "Open"
          /\ pc' = "create_session"
          /\ result' = NoResult
          /\ failed' = NoFailure
       \/ /\ connection' = connection
          /\ pc' = "idle"
          /\ result' = Raised(TransportError)
          /\ failed' = [step |-> "Connect", cause |-> "call"]
    /\ issued' = <<>>
    /\ sent_before' = sent_before \cup TokensOf(issued)
    /\ UNCHANGED <<counter, session, start_response>>

\* screencast(), up to its first step: Connection::session() and the proxy.
screencast ==
    /\ pc = "idle"
    /\ run < MaxRuns
    /\ run' = run + 1
    /\ request' = [r \in Requests |-> "none"]
    /\ subscribed' = "none"
    /\ responses' = <<>>
    /\ lost' = {}
    /\ done' = {}
    /\ received' = [r \in Awaited |-> NoSignal]
    /\ \/ /\ connection' = "Open"
          /\ pc' = "create_session"
          /\ result' = NoResult
          /\ failed' = NoFailure
       \/ /\ connection' = connection
          /\ pc' = "idle"
          /\ result' = Raised(TransportError)
          /\ failed' = [step |-> "Connect", cause |-> "call"]
    /\ issued' = <<>>
    /\ sent_before' = sent_before \cup TokensOf(issued)
    /\ UNCHANGED <<counter, session, selected_sources, start_response>>

\* create_session(): the payload and the CreateSession call.
create_session_call ==
    /\ pc = "create_session"
    /\ LET session_token_value == to_string(counter)
           handle_token_value == to_string(counter)
       IN  issued' = Append(issued, Call("CreateSession", handle_token_value,
                                         session_token_value, NoPath))
    /\ \/ /\ connection = "Open"
          /\ request' = [request EXCEPT !["CreateSession"] = "accepted"]
          /\ counter' = increment(counter)
          /\ pc' = "create_session_subscribe"
          /\ UNCHANGED <<result, failed, subscribed, responses>>
       \/ /\ Fail("CreateSession", "call", TransportError)
          /\ UNCHANGED <<request, counter>>
    /\ UNCHANGED <<run, session, selected_sources, connection, lost, done,
                   received, start_response>>

\* create_session(): the request proxy and receive_response().
create_session_subscribe ==
    /\ pc = "create_session_subscribe"
    /\ IF connection = "Open"
       THEN /\ subscribed' = "CreateSession"
            /\ pc' = "create_session_next"
            /\ UNCHANGED <<result, failed, responses>>
       ELSE Fail("CreateSession", "subscribe", TransportError)
    /\ UNCHANGED <<run, counter, session, selected_sources, connection, request,
                   lost, issued, done, received, start_response>>

\* create_session(): responses.next() and what follows it.
create_session_next ==
    /\ pc = "create_session_next"
    /\ IF responses # <<>>
       THEN LET response == Head(responses)
                parsed == create_session_parse(create_session_handle(response))
            IN  /\ received' = [received EXCEPT !["CreateSession"] = response]
                /\ IF ~response.body_ok
                   THEN /\ Fail("CreateSession", "args", VariantError("body"))
                        /\ UNCHANGED <<session, done>>
                   ELSE IF parsed.ok
                   THEN /\ session' = parsed.v
                        /\ done' = done \cup {"CreateSession"}
                        /\ pc' = "prepare_select"
                        /\ subscribed' = "none"
                        /\ responses' = <<>>
                        /\ UNCHANGED <<result, failed>>
                   ELSE /\ Fail("CreateSession",
                                CauseOf(response, "session_handle", parsed), parsed.v)
                        /\ UNCHANGED <<session, done>>
       ELSE /\ connection = "Dropped"
            /\ Fail("CreateSession", "closed",
                    Failure("create session", "fail to receive response"))
            /\ UNCHANGED <<session, done, received>>
    /\ UNCHANGED <<run, counter, selected_sources, connection, request, lost,
                   issued, start_response>>

\* prepare_select() with the commented-out wait put back: after the call it
\* goes on to wait for the Response signal instead of returning Ok.
prepare_select_awaiting ==
    /\ pc = "prepare_select"
    /\ LET handle_token_value == to_string(counter)
       IN  issued' = Append(issued, Call("SelectSources", handle_token_value,
                                         NoToken, session))
    /\ \/ /\ connection = "Open"
          /\ request' = [request EXCEPT !["SelectSources"] = "accepted"]
          /\ counter' = increment(counter)
          /\ pc' = "prepare_select_subscribe"
          /\ UNCHANGED <<result, failed, subscribed, responses, done>>
       \/ /\ Fail("SelectSources", "call", TransportError)
          /\ UNCHANGED <<request, counter, done>>
    /\ UNCHANGED <<run, session, selected_sources, connection, lost,
                   received, start_response>>

\* prepare_select(): the payload and the SelectSources call; its Response
\* signal is not waited for.
prepare_select ==
    /\ pc = "prepare_select"
    /\ LET handle_token_value == to_string(counter)
       IN  issued' = Append(issued, Call("SelectSources", handle_token_value,
                                         NoToken, session))
    /\ \/ /\ connection = "Open"
          /\ request' = [request EXCEPT !["SelectSources"] = "accepted"]
          /\ counter' = increment(counter)
          /\ done' = done \cup {"SelectSources"}
          /\ pc' = "start_select"
          /\ UNCHANGED <<result, failed, subscribed, responses>>
       \/ /\ Fail("SelectSources", "call", TransportError)
          /\ UNCHANGED <<request, counter, done>>
    /\ UNCHANGED <<run, session, selected_sources, connection, lost,
                   received, start_response>>

\* start_select(): the payload and the Start call.
start_select_call ==
    /\ pc = "start_select"
    /\ LET handle_token_value == to_string(counter)
       IN  issued' = Append(issued, Call("Start", handle_token_value,
                                         NoToken, session))
    /\ \/ /\ connection = "Open"
          /\ request' = [request EXCEPT !["Start"] = "accepted"]
          /\ counter' = increment(counter)
          /\ pc' = "start_select_subscribe"
          /\ UNCHANGED <<result, failed, subscribed, responses>>
       \/ /\ Fail("Start", "call", TransportError)
          /\ UNCHANGED <<request, counter>>
    /\ UNCHANGED <<run, session, selected_sources, connection, lost, done,
                   received, start_response>>

\* start_select(): the request proxy and receive_response().
start_select_subscribe ==
    /\ pc = "start_select_subscribe"
    /\ IF connection = "Open"
       THEN /\ subscribed' = "Start"
            /\ pc' = "start_select_next"
            /\ UNCHANGED <<result, failed, responses>>
       ELSE Fail("Start", "subscribe", TransportError)
    /\ UNCHANGED <<run, counter, session, selected_sources, connection, request,
                   lost, issued, done, received, start_response>>

\* start_select(): responses.next() and what follows it.
start_select_next ==
    /\ pc = "start_select_next"
    /\ IF responses # <<>>
       THEN LET response == Head(responses)
                parsed == start_select_parse(start_select_sources(response))
            IN  /\ received' = [received EXCEPT !["Start"] = response]
                /\ IF ~response.body_ok
                   THEN /\ Fail("Start", "args", VariantError("body"))
                        /\ UNCHANGED <<selected_sources, done, start_response>>
                   ELSE IF parsed.ok
                   THEN /\ selected_sources' = parsed.v
                        /\ start_response' = response
                        /\ done' = done \cup {"Start"}
                        /\ pc' = "open_remote"
                        /\ subscribed' = "none"
                        /\ responses' = <<>>
                        /\ UNCHANGED <<result, failed>>
                   ELSE /\ Fail("Start", CauseOf(response, "streams", parsed), parsed.v)
                        /\ UNCHANGED <<selected_sources, done, start_response>>
       ELSE /\ connection = "Dropped"
            /\ Fail("Start", "closed",
                    Failure("start select", "fail to receive response"))
            /\ UNCHANGED <<selected_sources, done, received, start_response>>
    /\ UNCHANGED <<run, counter, session, connection, request, lost, issued>>

\* open_remote(): the counter, then the OpenPipeWireRemote call, whose reply
\* is the file descriptor.
open_remote ==
    /\ pc = "open_remote"
    /\ counter' = increment(counter)
    /\ issued' = Append(issued, Call("OpenRemote", NoToken, NoToken, session))
    /\ \/ /\ connection = "Open"
          /\ \E fd \in Fds : result' = Returned(fd)
          /\ done' = done \cup {"OpenRemote"}
          /\ pc' = "idle"
          /\ UNCHANGED <<failed, subscribed, responses>>
       \/ /\ Fail("OpenRemote", "call", TransportError)
          /\ UNCHANGED done
    /\ UNCHANGED <<run, session, selected_sources, connection, request, lost,
                   received, start_response>>

\* ----------------------------------------------------------- environment
\* The broker emits the Response signal of an accepted request, once.  It
\* reaches the stream the client holds on that request; with no such stream
\* it is dropped.
broker_response(r, signal) ==
    /\ request[r] = "accepted"
    /\ connection = "Open"
    /\ request' = [request EXCEPT ![r] = "emitted"]
    /\ IF subscribed = r
       THEN responses' = Append(responses, signal) /\ lost' = lost
       ELSE lost' = lost \cup {r} /\ responses' = responses
    /\ UNCHANGED <<pc, run, counter, session, selected_sources, connection,
                   subscribed, issued, done, failed, received, start_response,
                   result>>

\* The bus connection goes away: calls fail and streams end.
connection_drop ==
    /\ connection = "Open"
    /\ connection' = "Dropped"
    /\ UNCHANGED <<pc, run, counter, session, selected_sources, request,
                   subscribed, responses, lost, issued, done, failed, received,
                   start_response, result>>

\* shutdown() that forgets the connection: it returns Ok(()) at once.
shutdown_leaky ==
    /\ pc = "idle"
    /\ pc' = "consumed"
    /\ shutdown_result' = "ok"
    /\ UNCHANGED <<run, counter, session, selected_sources, connection, request,
                   subscribed, responses, lost, issued, sent_before, done, failed,
                   received, start_response, result, decoder_vars, pair_vars>>

\* shutdown(self): takes the object by value, so it runs when no screencast()
\* borrows it and nothing can be called on the object afterwards; closes the
\* connection when there is one and returns what close() returned.
shutdown ==
    /\ pc = "idle"
    /\ pc' = "consumed"
    /\ IF connection # "None"
       THEN /\ connection' = "Closed"
            /\ \E r \in {"ok", "err"} : shutdown_result' = r
       ELSE /\ connection' = connection
            /\ shutdown_result' = "ok"
    /\ UNCHANGED <<run, counter, session, selected_sources, request,
                   subscribed, responses, lost, issued, sent_before, done, failed,
                   received, start_response, result, decoder_vars, pair_vars>>

Next ==
    \/ screencast /\ UNCHANGED other_vars
    \/ create_session_call /\ UNCHANGED step_kept_vars
    \/ create_session_subscribe /\ UNCHANGED step_kept_vars
    \/ create_session_next /\ UNCHANGED step_kept_vars
    \/ prepare_select /\ UNCHANGED step_kept_vars
    \/ start_select_call /\ UNCHANGED step_kept_vars
    \/ start_select_subscribe /\ UNCHANGED step_kept_vars
    \/ start_select_next /\ UNCHANGED step_kept_vars
    \/ open_remote /\ UNCHANGED step_kept_vars
    \/ \E r \in Requests : \E signal \in SignalsOf(r) :
           broker_response(r, signal) /\ UNCHANGED step_kept_vars
    \/ connection_drop /\ UNCHANGED step_kept_vars
    \/ shutdown

Spec == Init /\ [][Next]_vars

\* ------------------------------------------------------------- scheduling
\* The steps of a screencast() under way: the executor resumes the future
\* whenever it can go on.
ClientStep ==
    /\ \/ create_session_call
       \/ create_session_subscribe
       \/ create_session_next
       \/ prepare_select
       \/ start_select_call
       \/ start_select_subscribe
       \/ start_select_next
       \/ open_remote
    /\ UNCHANGED step_kept_vars

\* The broker answers request r: it emits the Response signal, or the stream
\* ends with the connection.
BrokerAnswers(r) ==
    /\ \/ \E signal \in SignalsOf(r) : broker_response(r, signal)
       \/ request[r] = "accepted" /\ connection_drop
    /\ UNCHANGED step_kept_vars

\* Spec with the client scheduled fairly and the broker answering every
\* request it accepted.
FairSpec ==
    /\ Spec
    /\ WF_vars(ClientStep)
    /\ \A r \in Requests : WF_vars(BrokerAnswers(r))

\* ------------------------------------------------------------ decoder run
\* The decoder on its own: try_from applied to one Value out of a bounded set.
SizeEntries ==
    { Structure(<<I32(1920), I32(1080)>>),
      Structure(<<I32(1920)>>),
      Structure(<<I32(1920), I32(1080), I32(60)>>),
      Structure(<<>>),
      Structure(<<Str(<<"b">>), Str(<<"b">>)>>),
      Structure(<<I32(1920), Str(<<"b">>)>>),
      Structure(<<Str(<<"b">>), I32(1080)>>),
      Structure(<<U32(1920), U32(1080)>>),
      I32(5) }
SourceTypeEntries == { U32(1), U32(2), Str(<<"a">>) }

\* Attribute dictionaries: source_type and size each present or not.
AttributeDicts ==
    {EmptyDict}
    \cup { [source_type |-> t] : t \in SourceTypeEntries }
    \cup { [size |-> z] : z \in SizeEntries }
    \cup { [source_type |-> t, size |-> z] :
              t \in SourceTypeEntries, z \in SizeEntries }

DecoderInputs ==
    { Structure(<<U32(id), Dict(d)>>) : id \in {3, 7}, d \in AttributeDicts }
    \cup { U32(7),
           Dict([source_type |-> U32(1)]),
           Structure(<<U32(7)>>),
           Structure(<<U32(7), Dict([source_type |-> U32(1)]), U32(0)>>),
           Structure(<<Str(<<"a">>), Dict([source_type |-> U32(1)])>>),
           Structure(<<I32(7), Dict([source_type |-> U32(1)])>>),
           Structure(<<U32(7), U32(1)>>) }

DecoderInit ==
    /\ ScreenCast_default
    /\ PairIdle
    /\ value \in DecoderInputs
    /\ decoded = NotDecoded

\* SelectedSource::try_from(value)
decode ==
    /\ decoded = NotDecoded
    /\ decoded' = SelectedSource_try_from(value)
    /\ UNCHANGED <<pc, run, counter, session, selected_sources, connection,
                   request, subscribed, responses, lost, issued, sent_before, done,
                   failed, received, start_response, result, shutdown_result,
                   value,
                   pair_vars>>

DecoderNext == decode

DecoderSpec == DecoderInit /\ [][DecoderNext]_vars

\* ------------------------------------------------------- two objects
\* Two ScreenCast objects run screencast() side by side in one process, each
\* on the connection it opened itself.  Only what correlates a signal with
\* its request is kept of each step: the token, the request path, the stream
\* and the status code.

\* The request path the broker hands out: the caller's bus name and the
\* handle_token of the call.
request_path(sender, token) == <<sender, token>>

\* A stream opened on every Response signal, whatever its path.
matches_any(stream_path, signal_path) == TRUE

\* ZBusRequestProxy::builder(..).path(request_path): the stream takes the
\* Response signals of that path.
matches(stream_path, signal_path) == stream_path = signal_path

\* Connection::session() and the proxy.
p_screencast(s) ==
    /\ p_pc[s] = "idle"
    /\ p_pc' = [p_pc EXCEPT ![s] = "create_session"]
    /\ UNCHANGED <<p_counter, p_path, p_stream, p_requests, p_handles, p_taken>>

\* A call that returns a request path, made at `at`, going on with `then`.
p_call(s, at, then) ==
    /\ p_pc[s] = at
    /\ LET handle_token_value == to_string(p_counter[s])
           path == request_path(s, handle_token_value)
       IN  /\ p_path' = [p_path EXCEPT ![s] = path]
           /\ p_requests' = p_requests \cup {path}
           /\ p_handles' = [p_handles EXCEPT ![s] = @ \cup {path}]
    /\ p_counter' = [p_counter EXCEPT ![s] = increment(@)]
    /\ p_pc' = [p_pc EXCEPT ![s] = then]
    /\ UNCHANGED <<p_stream, p_taken>>

p_create_session_call(s) == p_call(s, "create_session", "create_session_subscribe")
p_prepare_select(s) == p_call(s, "prepare_select", "start_select")
p_start_select_call(s) == p_call(s, "start_select", "start_select_subscribe")

\* The request proxy on request_path and receive_response().
p_subscribe(s, at, then) ==
    /\ p_pc[s] = at
    /\ p_stream' = [p_stream EXCEPT ![s] = [path |-> p_path[s], queue |-> <<>>]]
    /\ p_pc' = [p_pc EXCEPT ![s] = then]
    /\ UNCHANGED <<p_counter, p_path, p_requests, p_handles, p_taken>>

p_create_session_subscribe(s) ==
    p_subscribe(s, "create_session_subscribe", "create_session_next")
p_start_select_subscribe(s) ==
    p_subscribe(s, "start_select_subscribe", "start_select_next")

\* responses.next() and the match on the status code.
p_next(s, at, then) ==
    /\ p_pc[s] = at
    /\ p_stream[s].queue # <<>>
    /\ LET signal == Head(p_stream[s].queue)
       IN  /\ p_taken' = p_taken \cup
                  {[by |-> s, awaited |-> p_path[s], signal |-> signal]}
           /\ p_pc' = [p_pc EXCEPT ![s] = IF signal.response = 0 THEN then
                                          ELSE "returned"]
    /\ p_stream' = [p_stream EXCEPT ![s] = NoStream]
    /\ UNCHANGED <<p_counter, p_path, p_requests, p_handles>>

p_create_session_next(s) == p_next(s, "create_session_next", "prepare_select")
p_start_select_next(s) == p_next(s, "start_select_next", "open_remote")

\* open_remote(): no request path, no signal.
p_open_remote(s) ==
    /\ p_pc[s] = "open_remote"
    /\ p_counter' = [p_counter EXCEPT ![s] = increment(@)]
    /\ p_pc' = [p_pc EXCEPT ![s] = "returned"]
    /\ UNCHANGED <<p_path, p_stream, p_requests, p_handles, p_taken>>

\* The broker emits the Response signal of a request path; the bus hands it
\* to every stream that takes signals of that path.
p_broker_response(path, code) ==
    /\ path \in p_requests
    /\ p_requests' = p_requests \ {path}
    /\ p_stream' = [s \in Sessions |->
           IF p_stream[s].path # NoPath /\ matches(p_stream[s].path, path)
           THEN [p_stream[s] EXCEPT !.queue =
                    Append(@, [path |-> path, response |-> code])]
           ELSE p_stream[s]]
    /\ UNCHANGED <<p_pc, p_counter, p_path, p_handles, p_taken>>

\* Every token the two objects can come to send.
PairTokens == { to_string(n) : n \in 0..3 }

PairInit ==
    /\ ScreenCast_default
    /\ DecoderIdle
    /\ PairIdle

\* What the run of two objects leaves alone.
single_vars ==
    <<pc, run, counter, session, selected_sources, connection, request,
      subscribed, responses, lost, issued, sent_before, done, failed,
      received, start_response, result, shutdown_result, decoder_vars>>

PairNext ==
    \/ \E s \in Sessions : p_screencast(s) /\ UNCHANGED single_vars
    \/ \E s \in Sessions : p_create_session_call(s) /\ UNCHANGED single_vars
    \/ \E s \in Sessions : p_create_session_subscribe(s) /\ UNCHANGED single_vars
    \/ \E s \in Sessions : p_create_session_next(s) /\ UNCHANGED single_vars
    \/ \E s \in Sessions : p_prepare_select(s) /\ UNCHANGED single_vars
    \/ \E s \in Sessions : p_start_select_call(s) /\ UNCHANGED single_vars
    \/ \E s \in Sessions : p_start_select_subscribe(s) /\ UNCHANGED single_vars
    \/ \E s \in Sessions : p_start_select_next(s) /\ UNCHANGED single_vars
    \/ \E s \in Sessions : p_open_remote(s) /\ UNCHANGED single_vars
    \/ \E s \in Sessions : \E t \in PairTokens : \E code \in ResponseCodes :
           p_broker_response(request_path(s, t), code) /\ UNCHANGED single_vars

PairSpec == PairInit /\ [][PairNext]_vars

\* ================================================================ claims
StepOrder == <<"CreateSession", "SelectSources", "Start", "OpenRemote">>
AllSteps == {"CreateSession", "SelectSources", "Start", "OpenRemote"}

\* The calls the current screencast() has sent, in order.
CurrentCalls == SelectSeq(issued, LAMBDA c : c.run = run)
CurrentNames == [i \in 1..Len(CurrentCalls) |-> CurrentCalls[i].call]

\* Steps of the current run that were entered and have not returned.
InFlight ==
    { s \in AllSteps : /\ \E i \in 1..Len(CurrentNames) : CurrentNames[i] = s
                       /\ s \notin done
                       /\ failed.step # s }

\* No screencast() is under way: none was called, the last one returned, or
\* the object is gone.
NotRunning == pc \in {"idle", "consumed"}

\* C1: the calls of one run go out in the order CreateSession, SelectSources,
\* Start, OpenRemote; a call goes out only when the step before it has
\* returned Ok; at most one step is in flight.
C1_StrictOrder ==
    /\ Len(CurrentNames) <= Len(StepOrder)
    /\ \A i \in 1..Len(CurrentNames) : CurrentNames[i] = StepOrder[i]
    /\ \A i \in 2..Len(CurrentNames) : StepOrder[i - 1] \in done
    /\ Cardinality(InFlight) <= 1

C1_Witness ==
    /\ CurrentNames = StepOrder
    /\ result.tag = "ok"

\* C3: screencast() returns a file descriptor exactly when all four steps
\* returned Ok; a failing step ends the run there: its error is returned, no
\* descriptor is, the steps before it are the ones that returned Ok and no
\* call follows the failing step's.
C3_HandleIffAllSteps ==
    /\ (result.tag = "ok") <=> (done = AllSteps)
    /\ result.tag = "ok" => NotRunning /\ result.fd \in Fds /\ failed = NoFailure
    /\ (NotRunning /\ run > 0) => result.tag \in {"ok", "err"}
    /\ result.tag = "err" =>
          /\ NotRunning
          /\ result.fd \notin Fds
          /\ failed.step \notin done
          /\ IF failed.step = "Connect"
             THEN CurrentNames = <<>> /\ done = {}
             ELSE /\ Len(CurrentNames) >= 1
                  /\ CurrentNames[Len(CurrentNames)] = failed.step
                  /\ done = { StepOrder[i] : i \in 1..(Len(CurrentNames) - 1) }

C3_Witness ==
    /\ result.tag = "err"
    /\ failed.step = "Start"
    /\ done = {"CreateSession", "SelectSources"}

\* C4: when the Response signal CreateSession took has no "session_handle"
\* entry, screencast() has failed and CreateSession is the only call of the
\* run.
C4_MissingSessionHandle ==
    LET r == received["CreateSession"]
    IN  (r # NoSignal /\ r.body_ok /\ "session_handle" \notin DOMAIN r.results) =>
            /\ NotRunning
            /\ result.tag = "err"
            /\ CurrentNames = <<"CreateSession">>

C4_Witness ==
    /\ received["CreateSession"] = Signal(0, EmptyDict)
    /\ result.tag = "err"
    /\ failed.step = "CreateSession"

\* C5: a step that waits on its Response stream and leaves the wait with no
\* signal in the stream (the stream ended) returns the "fail to receive
\* response" failure of that step from screencast(), and sends no call.
WaitingStep ==
    CASE pc = "create_session_next" -> "CreateSession"
      [] pc = "start_select_next" -> "Start"
      [] OTHER -> ""
WaitingPrefix ==
    CASE pc = "create_session_next" -> "create session"
      [] pc = "start_select_next" -> "start select"
      [] OTHER -> ""
C5_StreamEnded ==
    [][ (WaitingStep # "" /\ responses = <<>> /\ pc' # pc) =>
            /\ pc' = "idle"
            /\ result' = Raised(Failure(WaitingPrefix, "fail to receive response"))
            /\ failed'.step = WaitingStep
            /\ issued' = issued
            /\ done' = done ]_vars

C5_Witness ==
    /\ failed = [step |-> "Start", cause |-> "closed"]
    /\ result = Raised(Failure("start select", "fail to receive response"))
    /\ received["Start"] = NoSignal

\* C2 (as claimed): the Response signal the broker has emitted for the
\* request of a waiting step (CreateSession, Start) is in that step's stream.
C2_NoSignalLost ==
    \A r \in Awaited :
        (WaitingStep = r /\ request[r] = "emitted") => responses # <<>>

\* C6 (as claimed): a successful first run sent four tokens, one per step,
\* the decimal strings of 0, 1, 2, 3 in step order.
C6_FourTokens ==
    (result.tag = "ok" /\ run = 1) =>
        /\ Len(CurrentCalls) = 4
        /\ CurrentCalls[1].token = <<"0">>
        /\ CurrentCalls[2].token = <<"1">>
        /\ CurrentCalls[3].token = <<"2">>
        /\ CurrentCalls[4].token = <<"3">>

\* The number a decimal string denotes.
DigitValue(ch) ==
    CASE ch = "0" -> 0 [] ch = "1" -> 1 [] ch = "2" -> 2 [] ch = "3" -> 3
      [] ch = "4" -> 4 [] ch = "5" -> 5 [] ch = "6" -> 6 [] ch = "7" -> 7
      [] ch = "8" -> 8 [] ch = "9" -> 9
RECURSIVE ParseNat(_)
ParseNat(str) ==
    IF Len(str) = 1 THEN DigitValue(str[1])
    ELSE 10 * ParseNat(SubSeq(str, 1, Len(str) - 1)) + DigitValue(str[Len(str)])

\* C6 (amended): a successful run sent three request tokens, with
\* CreateSession, SelectSources and Start; they are pairwise distinct and are
\* the decimal strings of n, n+1, n+2, n the counter at the start of the run
\* (0 in the first run); OpenRemote carries no token but counts as well, so
\* the counter ends at n+4.
C6_ThreeTokens ==
    result.tag = "ok" =>
        LET n == counter - 4
        IN  /\ Len(CurrentCalls) = 4
            /\ n >= 0
            /\ run = 1 => n = 0
            /\ \A i \in 1..3 : /\ CurrentCalls[i].token # NoToken
                               /\ ParseNat(CurrentCalls[i].token) = n + i - 1
            /\ \A i, j \in 1..3 :
                   i # j => CurrentCalls[i].token # CurrentCalls[j].token
            /\ CurrentCalls[4].token = NoToken

C6_Witness ==
    /\ result.tag = "ok"
    /\ run = 1
    /\ counter = 4
    /\ CurrentCalls[3].token = <<"2">>

\* C7 (as claimed): the two tokens of every CreateSession call differ.
C7_TokensDiffer ==
    \A i \in 1..Len(issued) :
        issued[i].call = "CreateSession" =>
            issued[i].session_token # issued[i].token

\* C8: prepare_select() returns Ok as soon as the SelectSources call is
\* accepted; no stream is ever opened on that request, so its Response
\* signal, when emitted, is dropped whatever it carries.
C8_SelectNotAwaited ==
    /\ request["SelectSources"] # "none" => "SelectSources" \in done
    /\ subscribed # "SelectSources"
    /\ request["SelectSources"] = "emitted" => "SelectSources" \in lost

\* Start has returned Ok while the SelectSources signal is still to come.
C8_Witness ==
    /\ "Start" \in done
    /\ request["SelectSources"] = "accepted"

\* C9: selected_sources is empty as long as no Start step of the object has
\* returned Ok; from then on it holds one record per element of the "streams"
\* array of the signal the last such Start took, in the array's order.
C9_SelectedSources ==
    IF start_response = NoSignal
    THEN selected_sources = <<>> /\ "Start" \notin done
    ELSE LET streams == start_response.results["streams"].v
         IN  /\ start_response.response = 0
             /\ "Start" \in done => received["Start"] = start_response
             /\ Len(selected_sources) = Len(streams)
             /\ \A i \in 1..Len(streams) :
                    /\ selected_sources[i].id = streams[i].v[1].v
                    /\ selected_sources[i].type_ =
                           streams[i].v[2].v["source_type"].v

C9_Witness ==
    /\ "Start" \in done
    /\ Len(selected_sources) = 2
    /\ selected_sources[1].id = 7
    /\ selected_sources[2].id = 3

\* The name each step's own error messages carry.
StepLabel(step) ==
    CASE step = "CreateSession" -> "create session"
      [] step = "SelectSources" -> "select source"
      [] step = "Start" -> "start select"
      [] OTHER -> "open remote"

\* C10 (as claimed): the error of a failed step names that step.
C10_ErrorNamesStep ==
    (result.tag = "err" /\ failed.step \in AllSteps) =>
        /\ result.err.kind = "Failure"
        /\ result.err.prefix = StepLabel(failed.step)

\* C12: once shutdown() has run, the connection is closed if a screencast()
\* on the object ever established one (a call was sent on it), whatever the
\* outcome of that handshake; with no connection ever established shutdown()
\* changed nothing and returned Ok.
C12_ShutdownCloses ==
    pc = "consumed" =>
        IF issued # <<>> \/ sent_before # {}
        THEN connection = "Closed"
        ELSE connection = "None" /\ shutdown_result = "ok"

\* shutdown() after a handshake that failed in its Start step.
C12_Witness ==
    /\ pc = "consumed"
    /\ failed.step = "Start"
    /\ connection = "Closed"

\* The shape the decoder expects at the top: (u32 id, dictionary).
TopShapeOk(x) ==
    /\ x.t = "Structure"
    /\ Len(x.v) = 2
    /\ x.v[1].t = "U32"
    /\ x.v[2].t = "Dict"

\* A size entry that is a pair of numbers.
NumericTypes == {"I32", "U32"}
SizeWellFormed(z) ==
    /\ z.t = "Structure"
    /\ Len(z.v) = 2
    /\ z.v[1].t \in NumericTypes
    /\ z.v[2].t \in NumericTypes

\* C13 (as claimed): a decoded record has width and height both or neither;
\* with a numeric source_type and a size entry that is not a pair of numbers
\* the decoder returns a record without width and height, with the id and
\* the source_type of the input.
C13_SizeLenient ==
    (decoded # NotDecoded /\ TopShapeOk(value)) =>
        LET d == value.v[2].v
        IN  /\ decoded.ok => (decoded.v.width.some <=> decoded.v.height.some)
            /\ ( /\ "source_type" \in DOMAIN d
                 /\ d["source_type"].t = "U32"
                 /\ "size" \in DOMAIN d
                 /\ ~SizeWellFormed(d["size"]) ) =>
                   /\ decoded.ok
                   /\ ~decoded.v.width.some
                   /\ ~decoded.v.height.some
                   /\ decoded.v.id = value.v[1].v
                   /\ decoded.v.type_ = d["source_type"].v

\* C14: the decoder returns the "fail to get source_type" error for a
\* well-shaped value without source_type, the IncorrectType error for a value
\* of another shape, and a record for neither.
C14_FailsClosed ==
    decoded # NotDecoded =>
        /\ ~TopShapeOk(value) =>
               decoded = Err(VariantError("IncorrectType"))
        /\ (TopShapeOk(value) /\ "source_type" \notin DOMAIN value.v[2].v) =>
               decoded = Err(VariantError("fail to get source_type"))

C14_Witness ==
    /\ value = Structure(<<U32(7), Dict([size |-> Structure(<<I32(1920), I32(1080)>>)])>>)
    /\ decoded = Err(VariantError("fail to get source_type"))

\* C15 (as claimed): no two calls of the object, in any of its runs, carry
\* the same request token.
C15_TokensNeverRepeat ==
    /\ \A i, j \in 1..Len(issued) :
          (i < j /\ issued[i].token # NoToken) =>
              issued[i].token # issued[j].token
    /\ \A i \in 1..Len(issued) : issued[i].token \notin sent_before

\* C16: a step that takes a Response signal with a non-zero status code
\* fails, whatever the result dictionary holds, and leaves self.session and
\* self.selected_sources as they were.
C16_StatusChecked ==
    [][ \A r \in Awaited :
          ( /\ received[r] = NoSignal
            /\ received'[r] # NoSignal
            /\ received'[r].body_ok
            /\ received'[r].response # 0 ) =>
              /\ pc' = "idle"
              /\ result'.tag = "err"
              /\ failed'.step = r
              /\ r \notin done'
              /\ session' = session
              /\ selected_sources' = selected_sources ]_vars

\* Start took a signal with status 1 and a decodable streams entry; the
\* sources of the run before are still there.
C16_Witness ==
    /\ received["Start"].body_ok
    /\ received["Start"].response = 1
    /\ "streams" \in DOMAIN received["Start"].results
    /\ received["Start"].results["streams"].t = "Array"
    /\ Len(received["Start"].results["streams"].v) = 1
    /\ result.tag = "err"
    /\ Len(selected_sources) = 2

\* C17: every SelectSources, Start and OpenRemote call carries the session
\* handle that the Response signal CreateSession took in the same run
\* brought, with status 0.
C17_SessionOfThisRun ==
    \A i \in 1..Len(CurrentCalls) :
        CurrentCalls[i].call # "CreateSession" =>
            LET r == received["CreateSession"]
            IN  /\ r.body_ok
                /\ r.response = 0
                /\ "session_handle" \in DOMAIN r.results
                /\ r.results["session_handle"].t = "Str"
                /\ CurrentCalls[i].session = r.results["session_handle"].v
                /\ CurrentCalls[i].session # NoPath

\* A second run, after a first one that went through all its steps, whose
\* OpenRemote call carries the handle its own CreateSession brought.
C17_Witness ==
    /\ run = 2
    /\ counter = 8
    /\ Len(issued) = 4
    /\ issued[4].call = "OpenRemote"
    /\ issued[4].session = <<"/", "b">>

\* C18 (as claimed): once a Start step of the object has assigned
\* selected_sources, its value never changes.
C18_WriteOnce ==
    [][ start_response # NoSignal => selected_sources' = selected_sources ]_vars

\* C18 (amended): selected_sources changes only in the step by which Start
\* returns Ok, hence at most once in a run; a later run may assign it again.
C18_WriteOncePerRun ==
    [][ selected_sources' # selected_sources =>
            /\ pc = "start_select_next"
            /\ "Start" \notin done
            /\ "Start" \in done'
            /\ run' = run ]_vars

\* Start has returned Ok in the second run after it did so in the first.
C18_Witness ==
    /\ run = 2
    /\ "Start" \in done
    /\ counter = 7
    /\ Len(selected_sources) = 1

\* C19 (as claimed): with the client scheduled fairly and the broker
\* answering every accepted request, a screencast() under way returns.
C19_Returns ==
    (pc \notin {"idle", "consumed"}) ~> (pc = "idle")

\* C20: every signal one of two objects took is the signal of the request
\* path its own waiting step was handed, and of no path handed to the other
\* object.
C20_NoCrossDelivery ==
    \A t \in p_taken :
        /\ t.signal.path = t.awaited
        /\ t.signal.path \in p_handles[t.by]
        /\ \A o \in Sessions \ {t.by} : t.signal.path \notin p_handles[o]

\* Both objects took the signal of a request they had sent with token "0".
C20_Witness ==
    /\ \E t \in p_taken : t.by = 1 /\ t.signal.path[2] = <<"0">>
    /\ \E t \in p_taken : t.by = 2 /\ t.signal.path[2] = <<"0">>

====
